---- MODULE Spec2Model ----
(***************************************************************************)
(* IQSSA (app.py): the "Run Simulation" block of the M/M/1 queue           *)
(* simulator, statement by statement.                                      *)
(*                                                                         *)
(* Indices are 0-based as in the source: an array of length n is a         *)
(* function on 0..n-1.  Times are whole ticks.  A quotient a/b of two      *)
(* floats is kept exact as a record of kind "num" with fields num and den; *)
(* a division by 0.0 gives the IEEE values Inf (a # 0) or NaN (a = 0), as  *)
(* numpy float64 division does (a RuntimeWarning, no exception).           *)
(* first_run is a history variable: the configuration and the result of    *)
(* the first run that completed (empty before), and whether a run with     *)
(* another configuration has completed since.                              *)
(*                                                                         *)
(* The process-wide numpy generator is a small full-period congruential    *)
(* generator: seeding sets its state from the seed alone, every draw       *)
(* advances it by one step, and a draw's value is a function of the state  *)
(* reached.  The state survives from one script run to the next.           *)
(***************************************************************************)
EXTENDS Integers, FiniteSets, Sequences, TLC

\* ---- bounds of the model ------------------------------------------------
MaxCustomers == 4
MaxRate == 2
MaxSeed == 2

VARIABLES pc, arrival_rate, service_rate, num_customers, random_seed, rng,
          inter_arrival_times, service_times, arrival_times,
          start_times, end_times, wait_times, turnaround_times, i,
          avg_wait, avg_turnaround, utilization, throughput, error,
          first_run

vars == <<pc, arrival_rate, service_rate, num_customers, random_seed, rng,
          inter_arrival_times, service_times, arrival_times,
          start_times, end_times, wait_times, turnaround_times, i,
          avg_wait, avg_turnaround, utilization, throughput, error,
          first_run>>

inputs == <<arrival_rate, service_rate, num_customers, random_seed>>
arrays == <<start_times, end_times, wait_times, turnaround_times>>
metrics == <<avg_wait, avg_turnaround, utilization, throughput>>

\* ---- values -------------------------------------------------------------
Unset == [kind |-> "unset", num |-> 0, den |-> 1]
NaN == [kind |-> "nan", num |-> 0, den |-> 1]
Inf == [kind |-> "inf", num |-> 0, den |-> 1]
NoError == "none"

\* the ranges of the sidebar widgets, scaled down: the rates and the count
\* are positive (the sliders start at 0.1 and at 100), the seed is >= 0
Rates == 1..MaxRate
Counts == 1..MaxCustomers
Seeds == 0..MaxSeed

\* the same block entered with values the widgets never produce
\* (a rate or a count that is zero or negative)
CoreRates == (-1)..1
CoreCounts == (-1)..2
CoreSeeds == 0..1

\* ---- the generator ------------------------------------------------------
GenStates == 0..31

NextState(state) == (5 * state + 1) % 32

RECURSIVE Advance(_, _)
Advance(state, k) == IF k <= 0 THEN state ELSE Advance(NextState(state), k - 1)

\* np.random.seed(s): the new state depends on the seed only
seed_NoOp(state, s) == state
seed(state, s) == (11 * s + 3) % 32

\* a standard exponential variate -log(1 - U), U the quartile of the state
StandardExponential(state) ==
    CASE state \div 8 = 0 -> 0
      [] state \div 8 = 1 -> 0
      [] state \div 8 = 2 -> 1
      [] OTHER -> 3

\* 1/rate, in ticks
Scale(rate) == 6 \div rate

\* np.random.exponential(scale, size) from generator state `state`:
\* the array drawn and the state the generator is left in
Exponential_NoAdvance(state, scale, size) ==
    [values |-> [k \in 0..(size - 1) |->
                   scale * StandardExponential(Advance(state, k + 1))],
     state |-> state]
Exponential(state, scale, size) ==
    [values |-> [k \in 0..(size - 1) |->
                   scale * StandardExponential(Advance(state, k + 1))],
     state |-> Advance(state, size)]

\* ---- numpy helpers ------------------------------------------------------
Len0(a) == Cardinality(DOMAIN a)

RECURSIVE SumTo(_, _)
SumTo(a, k) == IF k < 0 THEN 0 ELSE a[k] + SumTo(a, k - 1)

\* np.sum(a)
Sum_SkipFirst(a) == SumTo(a, Len0(a) - 1) - (IF Len0(a) > 0 THEN a[0] ELSE 0)
Sum(a) == SumTo(a, Len0(a) - 1)

\* np.cumsum(a)
CumSum(a) == [k \in DOMAIN a |-> SumTo(a, k)]

\* np.zeros(n)
Ones(n) == [k \in 0..(n - 1) |-> 1]
Zeros(n) == [k \in 0..(n - 1) |-> 0]

\* float64 division
Divide_NaN(a, b) == IF b = 0 THEN NaN
                    ELSE [kind |-> "num", num |-> a, den |-> b]
Divide(a, b) == IF b = 0 THEN (IF a = 0 THEN NaN ELSE Inf)
                ELSE [kind |-> "num", num |-> a, den |-> b]

\* np.mean(a)
Mean(a) == Divide(Sum(a), Len0(a))

\* ---- the loop body, lines 43-46 -----------------------------------------
StartTime_ArrivalOnly(arrival, prev_end) == arrival
StartTime_Min(arrival, prev_end) == IF arrival <= prev_end THEN arrival ELSE prev_end
StartTime(arrival, prev_end) == IF arrival >= prev_end THEN arrival ELSE prev_end
EndTime(start, service) == start + service
WaitTime(start, arrival) == start - arrival
TurnaroundTime(end, arrival) == end - arrival

\* ---- initial state: the script has not run, the generator holds whatever
\*      entropy numpy seeded it with at import
Init ==
    /\ pc = "idle"
    /\ arrival_rate = 1 /\ service_rate = 1
    /\ num_customers = 1 /\ random_seed = 0
    /\ rng \in GenStates
    /\ inter_arrival_times = <<>> /\ service_times = <<>>
    /\ arrival_times = <<>>
    /\ start_times = <<>> /\ end_times = <<>>
    /\ wait_times = <<>> /\ turnaround_times = <<>>
    /\ i = 0
    /\ avg_wait = Unset /\ avg_turnaround = Unset
    /\ utilization = Unset /\ throughput = Unset
    /\ error = NoError
    /\ first_run = {}

\* lines 17-23: the widgets deliver their values and the button is pressed
Press(ar, sr, n, s) ==
    /\ pc = "idle"
    /\ arrival_rate' = ar /\ service_rate' = sr
    /\ num_customers' = n /\ random_seed' = s
    /\ pc' = "l26"
    /\ UNCHANGED <<rng, inter_arrival_times, service_times, arrival_times,
                   arrays, i, metrics, error, first_run>>

Click == \E ar \in Rates, sr \in Rates, n \in Counts, s \in Seeds :
            Press(ar, sr, n, s)

ClickCore == \E ar \in CoreRates, sr \in CoreRates, n \in CoreCounts, s \in CoreSeeds :
            Press(ar, sr, n, s)

\* line 26
SetSeed ==
    /\ pc = "l26"
    /\ rng' = seed(rng, random_seed)
    /\ pc' = "l29"
    /\ UNCHANGED <<inputs, inter_arrival_times, service_times, arrival_times,
                   arrays, i, metrics, error, first_run>>

\* line 29
DrawInterArrival ==
    /\ pc = "l29"
    /\ arrival_rate > 0 /\ num_customers >= 0
    /\ LET d == Exponential(rng, Scale(arrival_rate), num_customers)
       IN /\ inter_arrival_times' = d.values
          /\ rng' = d.state
    /\ pc' = "l30"
    /\ UNCHANGED <<inputs, service_times, arrival_times,
                   arrays, i, metrics, error, first_run>>

\* line 29 raising: 1/0.0, or numpy rejecting a negative scale or size
DrawInterArrivalRaise ==
    /\ pc = "l29"
    /\ ~(arrival_rate > 0 /\ num_customers >= 0)
    /\ error' = IF arrival_rate = 0 THEN "ZeroDivisionError" ELSE "ValueError"
    /\ pc' = "error"
    /\ UNCHANGED <<inputs, rng, inter_arrival_times, service_times,
                   arrival_times, arrays, i, metrics, first_run>>

\* line 30
DrawService ==
    /\ pc = "l30"
    /\ service_rate > 0
    /\ LET d == Exponential(rng, Scale(service_rate), num_customers)
       IN /\ service_times' = d.values
          /\ rng' = d.state
    /\ pc' = "l33"
    /\ UNCHANGED <<inputs, inter_arrival_times, arrival_times,
                   arrays, i, metrics, error, first_run>>

\* line 30 raising
DrawServiceRaise ==
    /\ pc = "l30"
    /\ ~(service_rate > 0)
    /\ error' = IF service_rate = 0 THEN "ZeroDivisionError" ELSE "ValueError"
    /\ pc' = "error"
    /\ UNCHANGED <<inputs, rng, inter_arrival_times, service_times,
                   arrival_times, arrays, i, metrics, first_run>>

\* line 33
ComputeArrivals ==
    /\ pc = "l33"
    /\ arrival_times' = CumSum(inter_arrival_times)
    /\ pc' = "l36"
    /\ UNCHANGED <<inputs, rng, inter_arrival_times, service_times,
                   arrays, i, metrics, error, first_run>>

\* lines 36-39, and the loop variable set to range(1, n)'s first value
InitArrays ==
    /\ pc = "l36"
    /\ start_times' = Zeros(num_customers)
    /\ end_times' = Zeros(num_customers)
    /\ wait_times' = Zeros(num_customers)
    /\ turnaround_times' = Zeros(num_customers)
    /\ i' = 1
    /\ pc' = "l42"
    /\ UNCHANGED <<inputs, rng, inter_arrival_times, service_times,
                   arrival_times, metrics, error, first_run>>

\* lines 42-46: one iteration
LoopIter ==
    /\ pc = "l42"
    /\ i < num_customers
    /\ LET st == StartTime(arrival_times[i], end_times[i - 1])
           en == EndTime(st, service_times[i])
       IN /\ start_times' = [start_times EXCEPT ![i] = st]
          /\ end_times' = [end_times EXCEPT ![i] = en]
          /\ wait_times' = [wait_times EXCEPT ![i] = WaitTime(st, arrival_times[i])]
          /\ turnaround_times' =
                [turnaround_times EXCEPT ![i] = TurnaroundTime(en, arrival_times[i])]
    /\ i' = i + 1
    /\ UNCHANGED <<pc, inputs, rng, inter_arrival_times, service_times,
                   arrival_times, metrics, error, first_run>>

\* line 42: range(1, n) exhausted
LoopExit ==
    /\ pc = "l42"
    /\ i >= num_customers
    /\ pc' = "l49"
    /\ UNCHANGED <<inputs, rng, inter_arrival_times, service_times,
                   arrival_times, arrays, i, metrics, error, first_run>>

\* what a completed run hands to the display
Result ==
    [records |-> <<inter_arrival_times, service_times, arrival_times,
                   start_times', end_times', wait_times', turnaround_times'>>,
     metrics |-> <<avg_wait', avg_turnaround', utilization', throughput'>>]

\* lines 49-52 (end_times[-1] is the last element)
ComputeMetrics ==
    /\ pc = "l49"
    /\ num_customers >= 1
    /\ avg_wait' = Mean(wait_times)
    /\ avg_turnaround' = Mean(turnaround_times)
    /\ utilization' = Divide(Sum(service_times), end_times[num_customers - 1])
    /\ throughput' = Divide(num_customers, end_times[num_customers - 1])
    /\ pc' = "done"
    /\ UNCHANGED <<inputs, rng, inter_arrival_times, service_times,
                   arrival_times, arrays, i, error>>
    /\ first_run' = IF first_run = {}
                    THEN {[config |-> inputs, result |-> Result, other |-> FALSE]}
                    ELSE {[r EXCEPT !.other = r.other \/ r.config # inputs] :
                            r \in first_run}

\* lines 49-51 on empty arrays: the means are nan, end_times[-1] raises
ComputeMetricsRaise ==
    /\ pc = "l49"
    /\ num_customers < 1
    /\ avg_wait' = Mean(wait_times)
    /\ avg_turnaround' = Mean(turnaround_times)
    /\ error' = "IndexError"
    /\ pc' = "error"
    /\ UNCHANGED <<inputs, rng, inter_arrival_times, service_times,
                   arrival_times, arrays, i, utilization, throughput, first_run>>

\* the next interaction reruns the script from the top: every script
\* variable is gone, the module-level generator keeps its state
Rerun ==
    /\ pc \in {"done", "error"}
    /\ pc' = "idle"
    /\ inter_arrival_times' = <<>> /\ service_times' = <<>>
    /\ arrival_times' = <<>>
    /\ start_times' = <<>> /\ end_times' = <<>>
    /\ wait_times' = <<>> /\ turnaround_times' = <<>>
    /\ i' = 0
    /\ avg_wait' = Unset /\ avg_turnaround' = Unset
    /\ utilization' = Unset /\ throughput' = Unset
    /\ error' = NoError
    /\ UNCHANGED <<inputs, rng, first_run>>

Next ==
    \/ Click
    \/ SetSeed
    \/ DrawInterArrival
    \/ DrawService
    \/ ComputeArrivals
    \/ InitArrays
    \/ LoopIter
    \/ LoopExit
    \/ ComputeMetrics
    \/ Rerun

Spec == Init /\ [][Next]_vars

\* the block on any configuration, the ones the widgets exclude included
NextCore ==
    \/ ClickCore
    \/ SetSeed
    \/ DrawInterArrival
    \/ DrawInterArrivalRaise
    \/ DrawService
    \/ DrawServiceRaise
    \/ ComputeArrivals
    \/ InitArrays
    \/ LoopIter
    \/ LoopExit
    \/ ComputeMetrics
    \/ ComputeMetricsRaise
    \/ Rerun

SpecCore == Init /\ [][NextCore]_vars

\* ---- properties ----------------------------------------------------------
Processed == IF pc \in {"l42", "l49", "done"} THEN 1..(i - 1) ELSE {}

LastEnd == end_times[num_customers - 1]

CurrentResult ==
    [records |-> <<inter_arrival_times, service_times, arrival_times,
                   start_times, end_times, wait_times, turnaround_times>>,
     metrics |-> <<avg_wait, avg_turnaround, utilization, throughput>>]

SeededState == (11 * random_seed + 3) % 32

RECURSIVE Total(_, _, _)
Total(a, lo, hi) == IF lo > hi THEN 0 ELSE a[lo] + Total(a, lo + 1, hi)

InvalidConfig == arrival_rate <= 0 \/ service_rate <= 0 \/ num_customers < 1

\* C1: for every index k >= 1 the loop has processed, arrival_times is the
\* running sum of the inter-arrival times, start_times[k] is exactly the
\* larger of arrival_times[k] and end_times[k-1], end_times[k] is
\* start_times[k] + service_times[k], wait_times[k] is start_times[k] -
\* arrival_times[k] and turnaround_times[k] is end_times[k] - arrival_times[k].
C1_LoopRecurrence ==
    \A k \in Processed :
        /\ arrival_times[0] = inter_arrival_times[0]
        /\ arrival_times[k] = arrival_times[k - 1] + inter_arrival_times[k]
        /\ start_times[k] >= arrival_times[k]
        /\ start_times[k] >= end_times[k - 1]
        /\ start_times[k] \in {arrival_times[k], end_times[k - 1]}
        /\ end_times[k] = start_times[k] + service_times[k]
        /\ wait_times[k] = start_times[k] - arrival_times[k]
        /\ turnaround_times[k] = end_times[k] - arrival_times[k]

\* a finished run of four customers in which one customer queued behind
\* its predecessor and another found the server idle
C1_Witness ==
    /\ pc = "done" /\ num_customers >= 4
    /\ \E k \in 1..(num_customers - 1) : end_times[k - 1] > arrival_times[k]
    /\ \E k \in 1..(num_customers - 1) :
          arrival_times[k] > end_times[k - 1] /\ end_times[k - 1] > 0

\* C2: in every state of the loop, with non-negative inter-arrival and
\* service times, every processed index k >= 1 starts no earlier than its
\* arrival and no earlier than the previous customer's end, waits a
\* non-negative time, and its turnaround is at least its wait.
C2_LoopSafety ==
    (/\ \A k \in DOMAIN inter_arrival_times : inter_arrival_times[k] >= 0
     /\ \A k \in DOMAIN service_times : service_times[k] >= 0)
    => \A k \in Processed :
        /\ start_times[k] >= arrival_times[k]
        /\ start_times[k] >= end_times[k - 1]
        /\ wait_times[k] >= 0
        /\ turnaround_times[k] >= wait_times[k]

\* the loop is part-way through and the customer just processed arrived
\* after its predecessor had left
C2_Witness ==
    /\ pc = "l42" /\ i >= 2 /\ i < num_customers
    /\ arrival_times[i - 1] > end_times[i - 2]
    /\ service_times[i - 1] > 0

\* C3: after a completed run the first customer starts service at its own
\* arrival, so every record starts no earlier than it arrives.
C3_FirstStartIsArrival ==
    pc = "done" =>
        /\ start_times[0] = arrival_times[0]
        /\ \A k \in 0..(num_customers - 1) : start_times[k] >= arrival_times[k]

\* C4: after a completed run every record, index 0 included, ends at its
\* start plus its service time.
C4_EndIsStartPlusService ==
    pc = "done" =>
        \A k \in 0..(num_customers - 1) :
            end_times[k] = start_times[k] + service_times[k]

C7_ReseededBeforeServiceDraw ==
    pc = "l30" => rng = SeededState

\* C7 (amended): the generator is seeded once, immediately before the
\* inter-arrival draw; the service times are drawn from the state the n
\* inter-arrival draws leave behind, so they are draws n+1..2n of the seeded
\* stream and the inter-arrival times are draws 1..n.
C7_SeededOnce ==
    /\ pc = "l29" => rng = SeededState
    /\ pc = "l30" => rng = Advance(SeededState, num_customers)
    /\ pc \in {"l30", "l33", "l36", "l42", "l49", "done"} =>
          \A k \in 0..(num_customers - 1) :
              inter_arrival_times[k] =
                  Scale(arrival_rate) * StandardExponential(Advance(SeededState, k + 1))
    /\ pc \in {"l33", "l36", "l42", "l49", "done"} =>
          /\ rng = Advance(SeededState, 2 * num_customers)
          /\ \A k \in 0..(num_customers - 1) :
              service_times[k] =
                  Scale(service_rate)
                    * StandardExponential(Advance(SeededState, num_customers + k + 1))

\* both rates equal and both sequences drawn, yet they differ
C7_Witness ==
    /\ pc = "l33" /\ arrival_rate = service_rate
    /\ service_times # inter_arrival_times

\* C8: a completed run with the configuration of the first completed run
\* has the same records and the same metrics as that run, whatever runs
\* came between them.
C8_Reproducible ==
    pc = "done" =>
        \A r \in first_run : r.config = inputs => r.result = CurrentResult

\* the first run's configuration has run again after a run with another one
C8_Witness ==
    /\ pc = "done"
    /\ \E r \in first_run : r.config = inputs /\ r.other

\* C9: when the last end time is positive, average_wait * n is the sum of
\* all wait times, average_turnaround * n the sum of all turnaround times,
\* utilization * end_time[n-1] the sum of all service times (index 0
\* included) and throughput * end_time[n-1] is n.
C9_MetricsOverAllRecords ==
    (pc = "done" /\ LastEnd > 0) =>
        /\ avg_wait.kind = "num"
        /\ avg_wait.num * num_customers
              = Total(wait_times, 0, num_customers - 1) * avg_wait.den
        /\ avg_turnaround.kind = "num"
        /\ avg_turnaround.num * num_customers
              = Total(turnaround_times, 0, num_customers - 1) * avg_turnaround.den
        /\ utilization.kind = "num"
        /\ utilization.num * LastEnd
              = Total(service_times, 0, num_customers - 1) * utilization.den
        /\ throughput.kind = "num"
        /\ throughput.num * LastEnd = num_customers * throughput.den

\* a finished run with a positive horizon, a positive first service time and
\* a customer that waited
C9_Witness ==
    /\ pc = "done" /\ LastEnd > 0
    /\ service_times[0] > 0
    /\ \E k \in 1..(num_customers - 1) : wait_times[k] > 0

\* C10: with at least two customers, customer 1 starts at its arrival and
\* waits 0 whatever customer 0's service time is, and after the loop the
\* service times of customers 1..n-1 sum to at most the last end time.
C10_FirstServiceNeverDelays ==
    /\ (pc \in {"l42", "l49", "done"} /\ i >= 2) =>
          /\ start_times[1] = arrival_times[1]
          /\ wait_times[1] = 0
    /\ (pc \in {"l49", "done"} /\ num_customers >= 2) =>
          Total(service_times, 1, num_customers - 1) <= LastEnd

\* customer 0's service time is longer than the gap to customer 1's arrival
C10_Witness ==
    /\ pc = "done" /\ num_customers >= 2
    /\ service_times[0] > inter_arrival_times[1]
    /\ wait_times[1] = 0

====
